---- MODULE Spec2Model ----
(***************************************************************************)
(* Model of the notebooks of coding-best-practices:                        *)
(*   - the Memento notebook (momento.ipynb): the single-class Editor of    *)
(*     the "before" cell, and EditorState / Editor / History of the        *)
(*     "after" cell, with the usage cells that drive them;                 *)
(*   - the rate_limit and cache_decorator decorators of the decorators     *)
(*     notebook.                                                           *)
(* Strings are sequences of characters; None is 0 and snapshot objects     *)
(* (EditorState instances) are the indices 1.. of a heap of records.       *)
(***************************************************************************)
EXTENDS Integers, Sequences, FiniteSets, TLC

\* ---------------------------------------------------------------- bounds
MaxContent == 2     \* longest Editor content explored (characters)
MaxSnapshots == 2   \* EditorState objects created in one run
MaxHist == 2        \* longest History._states explored
MaxOldAdds == 4     \* add_text calls on the single-class Editor in one run
MaxEdits == 3       \* add_text commands of the usage cell in one run
MaxUndos == 5       \* consecutive undo commands of the usage cell
MaxCalls == 2       \* largest max_calls given to rate_limit
MaxPeriod == 3      \* largest period given to rate_limit
MaxTime == 5        \* last clock reading explored
MaxRaises == 2      \* calls of one argument tuple in which the cached function raises
MaxPushCalls == 5   \* History.push calls counted in one run

\* The text fragments handed to add_text.
Words == { <<"a">>, <<"b">> }

\* Python's None.
None == 0

VARIABLES
  content,    \* Editor._content (Memento version)
  heap,       \* the EditorState objects created so far: heap[id]
  states,     \* History._states, a list of references (ids) to EditorState objects
  captured,   \* history variable: captured[id] = Editor content when get_state made id
  stamps,     \* history variable: stamps[i] orders the entries of states by the time of their push
  last,       \* history variable: the last call made, its argument and its result
  pre         \* history variable: the call made before the last one, and its result

memVars == <<content, heap, states, captured, stamps, last, pre>>

VARIABLES
  old_content,  \* Editor._content of the single-class Editor (the "before" cell)
  old_history,  \* Editor._history of the single-class Editor: a list of strings
  old_frags,    \* history variable: the fragments added and not undone, oldest first
  old_adds,     \* history variable: number of add_text calls
  old_undos,    \* history variable: number of undo calls that restored a state
  old_last      \* history variable: the last call, "undo_empty" for an undo that printed

oldVars == <<old_content, old_history, old_frags, old_adds, old_undos, old_last>>

VARIABLES
  u_seeded,   \* usage cell: history.push(editor.get_state()) was run before any edit
  u_started,  \* usage cell: a command has been run
  u_log,      \* history variable: u_log[i] = Editor content right after the i-th edit
  u_undos,    \* history variable: number of undo commands since the last edit
  u_clean,    \* history variable: no edit was made after an undo
  u_ok,       \* history variable: the last undo's pop returned a snapshot
  u_failed    \* history variable: some undo was attempted on an empty History

useVars == <<u_seeded, u_started, u_log, u_undos, u_clean, u_ok, u_failed>>

\* The actors that share one Editor and one History.
Actors == {1, 2}

VARIABLES
  c_atomic,     \* the callers run add_text + get_state + push as one unit (under a lock)
  c_pc,         \* c_pc[a]: where actor a is in its add_text, get_state, push
  c_tmp,        \* c_tmp[a]: the EditorState actor a got from get_state and has yet to push
  c_interfered, \* history variable: another actor's add_text ran since a's get_state
  c_pushed      \* history variable: the actor whose push was the last step, 0 otherwise

concVars == <<c_atomic, c_pc, c_tmp, c_interfered, c_pushed>>

VARIABLES
  r_max_calls,  \* rate_limit's max_calls
  r_period,     \* rate_limit's period
  r_calls,      \* the closure's list calls: times of the admitted calls still counted
  r_now,        \* the last reading of time.perf_counter()
  r_admitted,   \* history variable: the times of all admitted calls, oldest first
  r_runs,       \* history variable: how many times the wrapped function ran
  r_last        \* history variable: "ok" or "raised", the outcome of the last call

rateVars == <<r_max_calls, r_period, r_calls, r_now, r_admitted, r_runs, r_last>>

\* The argument tuples the cached function is called with, and the values it returns.
CacheArgs == {1, 2}
CacheValues == {1, 2}

VARIABLES
  k_cache,     \* cache_decorator's dict cache: k_cache[args], None for a key not in it
  k_returns,   \* history variable: k_returns[args] = runs of func(*args) that returned
  k_raises,    \* history variable: k_raises[args] = runs of func(*args) that raised
  k_first,     \* history variable: what func(*args) returned the first time, None if never
  k_last       \* history variable: the last call of wrapper and how it ended

cacheVars == <<k_cache, k_returns, k_raises, k_first, k_last>>

VARIABLES
  h_pushes,    \* history variable: number of History.push calls
  h_pops,      \* history variable: number of History.pop calls that returned a snapshot
  h_last       \* history variable: "push", "pop", or "pop_none" for a pop that returned None

histVars == <<h_pushes, h_pops, h_last>>

vars == <<memVars, oldVars, useVars, concVars, rateVars, cacheVars, histVars>>

\* what the calls on the Memento version leave alone, and the calls on the single class
notMem == <<oldVars, useVars, concVars, rateVars, cacheVars, histVars>>
notOld == <<memVars, useVars, concVars, rateVars, cacheVars, histVars>>

\* ------------------------------------------------------------ EditorState
\* EditorState.__init__(content)
EditorState(c) == [content |-> c]

\* EditorState.get_content()
StateGetContent(st) == st.content

\* ------------------------------------------------------------ Editor (Memento version)
\* Editor.add_text(words): self._content += words
AddText(c, words) == c \o words

\* Editor.get_content()
GetContent(c) == c

\* (mutant of GetState) the new EditorState is built without the current content
GetStateEmpty(h, c) == Append(h, EditorState(<<>>))

\* Editor.get_state(): a new EditorState object holding the current content
GetState(h, c) == Append(h, EditorState(c))

\* (mutant of RestoreState) self._content += state.get_content()
RestoreStateAppend(h, s) == content \o StateGetContent(h[s])

\* Editor.restore_state(state): self._content = state.get_content()
RestoreState(h, s) == StateGetContent(h[s])

\* ------------------------------------------------------------ History
\* (mutant of Push) self._states.insert(0, state)
PushFront(st, s) == <<s>> \o st

\* History.push(state): self._states.append(state)
Push(st, s) == Append(st, s)

\* (mutant of PopIndex) list.pop(0): the oldest element
PopIndexFirst(st) == 1

\* list.pop() without an argument takes the last element
PopIndex(st) == Len(st)

\* the list left by list.pop() at index i
RemoveAt(st, i) == SubSeq(st, 1, i - 1) \o SubSeq(st, i + 1, Len(st))

\* ------------------------------------------------------------ calls on the objects
\* from is History._states as it was before the call when the call is pop, <<>> otherwise
Call(op, arg, ret, raised) ==
  [op |-> op, arg |-> arg, ret |-> ret, raised |-> raised,
   from |-> IF op = "pop" THEN states ELSE <<>>]

\* the largest stamp in the list (0 when it is empty)
RECURSIVE MaxStamp(_)
MaxStamp(sq) ==
  IF sq = <<>> THEN 0
  ELSE LET m == MaxStamp(Tail(sq)) IN IF Head(sq) > m THEN Head(sq) ELSE m

\* what pre remembers of the call before the last one: the call that handed a snapshot
\* to the caller (get_state, pop) and that snapshot, "other" for any other call
Before ==
  IF last.op \in {"get_state", "pop"}
    THEN [op |-> last.op, ret |-> last.ret, from |-> last.from]
    ELSE [op |-> "other", ret |-> None, from |-> <<>>]

InitMem ==
  /\ content = <<>>
  /\ heap = <<>>
  /\ states = <<>>
  /\ captured = <<>>
  /\ stamps = <<>>
  /\ last = [op |-> "init", arg |-> None, ret |-> None, raised |-> FALSE, from |-> <<>>]
  /\ pre = [op |-> "other", ret |-> None, from |-> <<>>]

\* (mutant of add_text) the text buffer is changed in place, so that the EditorState
\* objects made from it change with it
add_text_in_place(words) ==
  /\ Len(content) + Len(words) <= MaxContent
  /\ content' = AddText(content, words)
  /\ heap' = [i \in DOMAIN heap |->
               IF StateGetContent(heap[i]) = content THEN EditorState(content') ELSE heap[i]]
  /\ last' = Call("add_text", None, None, FALSE)
  /\ pre' = Before
  /\ UNCHANGED <<states, captured, stamps, notMem>>

add_text(words) ==
  /\ Len(content) + Len(words) <= MaxContent
  /\ content' = AddText(content, words)
  /\ last' = Call("add_text", None, None, FALSE)
  /\ pre' = Before
  /\ UNCHANGED <<heap, states, captured, stamps, notMem>>

\* Editor.get_content(): returns self._content (which is content after the call)
get_content ==
  /\ last' = Call("get_content", None, None, FALSE)
  /\ pre' = Before
  /\ UNCHANGED <<content, heap, states, captured, stamps, notMem>>

\* (mutant of get_state) get_state also stores the new EditorState in the History
get_state_saving ==
  /\ Len(heap) < MaxSnapshots
  /\ heap' = GetState(heap, content)
  /\ captured' = Append(captured, content)
  /\ states' = Push(states, Len(heap) + 1)
  /\ stamps' = Push(stamps, MaxStamp(stamps) + 1)
  /\ last' = Call("get_state", None, Len(heap) + 1, FALSE)
  /\ pre' = Before
  /\ UNCHANGED <<content, notMem>>

get_state ==
  /\ Len(heap) < MaxSnapshots
  /\ heap' = GetState(heap, content)
  /\ captured' = Append(captured, content)
  /\ last' = Call("get_state", None, Len(heap) + 1, FALSE)
  /\ pre' = Before
  /\ UNCHANGED <<content, states, stamps, notMem>>

\* restore_state(None) raises AttributeError at state.get_content(), before the assignment
restore_state(s) ==
  /\ IF s = None
       THEN /\ last' = Call("restore_state", s, None, TRUE)
            /\ UNCHANGED content
       ELSE /\ content' = RestoreState(heap, s)
            /\ last' = Call("restore_state", s, None, FALSE)
  /\ pre' = Before
  /\ UNCHANGED <<heap, states, captured, stamps, notMem>>

push(s) ==
  /\ Len(states) < MaxHist
  /\ states' = Push(states, s)
  /\ stamps' = Push(stamps, MaxStamp(stamps) + 1)
  /\ last' = Call("push", s, None, FALSE)
  /\ pre' = Before
  /\ UNCHANGED <<content, heap, captured, notMem>>

\* (mutant of pop) pop without the emptiness test: list.pop() raises IndexError
pop_unguarded ==
  /\ IF states # <<>>
       THEN /\ states' = RemoveAt(states, PopIndex(states))
            /\ stamps' = RemoveAt(stamps, PopIndex(states))
            /\ last' = Call("pop", None, states[PopIndex(states)], FALSE)
       ELSE /\ last' = Call("pop", None, None, TRUE)
            /\ UNCHANGED <<states, stamps>>
  /\ pre' = Before
  /\ UNCHANGED <<content, heap, captured, notMem>>

pop ==
  /\ IF states # <<>>
       THEN /\ states' = RemoveAt(states, PopIndex(states))
            /\ stamps' = RemoveAt(stamps, PopIndex(states))
            /\ last' = Call("pop", None, states[PopIndex(states)], FALSE)
       ELSE /\ last' = Call("pop", None, None, FALSE)
            /\ UNCHANGED <<states, stamps>>
  /\ pre' = Before
  /\ UNCHANGED <<content, heap, captured, notMem>>

\* History defines no redo: history.redo() raises AttributeError
redo ==
  /\ last' = Call("redo", None, None, TRUE)
  /\ pre' = Before
  /\ UNCHANGED <<content, heap, states, captured, stamps, notMem>>

Next ==
  \/ \E w \in Words : add_text(w)
  \/ get_content
  \/ get_state
  \/ \E s \in (1..Len(heap)) \cup {None} : restore_state(s)
  \/ \E s \in 1..Len(heap) : push(s)
  \/ pop
  \/ redo

\* ------------------------------------------------------------ Editor (single class)
\* the concatenation of a list of strings
RECURSIVE Flatten(_)
Flatten(ws) == IF ws = <<>> THEN <<>> ELSE Head(ws) \o Flatten(Tail(ws))

\* the list without its last element
Front(sq) == SubSeq(sq, 1, Len(sq) - 1)

InitOld ==
  /\ old_content = <<>>
  /\ old_history = <<>>
  /\ old_frags = <<>>
  /\ old_adds = 0
  /\ old_undos = 0
  /\ old_last = "init"

\* (mutant of old_add_text) the state is saved after the change instead of before it
old_add_text_late(words) ==
  /\ old_adds < MaxOldAdds
  /\ Len(old_content) + Len(words) <= MaxContent
  /\ old_content' = old_content \o words
  /\ old_history' = Append(old_history, old_content')
  /\ old_frags' = Append(old_frags, words)
  /\ old_adds' = old_adds + 1
  /\ old_last' = "add_text"
  /\ UNCHANGED <<old_undos, notOld>>

\* Editor.add_text(words): self._history.append(self._content); self._content += words
old_add_text(words) ==
  /\ old_adds < MaxOldAdds
  /\ Len(old_content) + Len(words) <= MaxContent
  /\ old_history' = Append(old_history, old_content)
  /\ old_content' = old_content \o words
  /\ old_frags' = Append(old_frags, words)
  /\ old_adds' = old_adds + 1
  /\ old_last' = "add_text"
  /\ UNCHANGED <<old_undos, notOld>>

\* (mutant of old_undo) undo without the emptiness test: list.pop() raises IndexError
old_undo_unguarded ==
  /\ IF old_history # <<>>
       THEN /\ old_content' = old_history[Len(old_history)]
            /\ old_history' = Front(old_history)
            /\ old_undos' = old_undos + 1
            /\ old_last' = "undo"
       ELSE /\ old_last' = "raised"
            /\ UNCHANGED <<old_content, old_history, old_undos>>
  /\ old_frags' = IF old_frags = <<>> THEN old_frags ELSE Front(old_frags)
  /\ UNCHANGED <<old_adds, notOld>>

\* Editor.undo(): restores self._history.pop(), or prints "No states to undo."
old_undo ==
  /\ IF old_history # <<>>
       THEN /\ old_content' = old_history[Len(old_history)]
            /\ old_history' = Front(old_history)
            /\ old_undos' = old_undos + 1
            /\ old_last' = "undo"
       ELSE /\ old_last' = "undo_empty"
            /\ UNCHANGED <<old_content, old_history, old_undos>>
  /\ old_frags' = IF old_frags = <<>> THEN old_frags ELSE Front(old_frags)
  /\ UNCHANGED <<old_adds, notOld>>

NextBefore ==
  \/ \E w \in Words \cup {<<>>} : old_add_text(w)
  \/ old_undo

\* ------------------------------------------------------------ usage cell (Memento version)
\* what the usage cell leaves alone besides the Memento objects
notUse == <<oldVars, concVars, rateVars, cacheVars, histVars>>

InitUse ==
  /\ u_seeded = FALSE
  /\ u_started = FALSE
  /\ u_log = <<>>
  /\ u_undos = 0
  /\ u_clean = TRUE
  /\ u_ok = TRUE
  /\ u_failed = FALSE

\* history.push(editor.get_state()): the heap, the History and their history variables
\* after it
SaveState ==
  /\ heap' = GetState(heap, content')
  /\ captured' = Append(captured, content')
  /\ states' = Push(states, Len(heap) + 1)
  /\ stamps' = Push(stamps, MaxStamp(stamps) + 1)

\* "add initial state (with empty content) to history": history.push(editor.get_state())
\* on the fresh Editor and History
UsageSeed ==
  /\ ~u_started
  /\ content' = content
  /\ SaveState
  /\ u_seeded' = TRUE
  /\ u_started' = TRUE
  /\ UNCHANGED <<last, pre, u_log, u_undos, u_clean, u_ok, u_failed, notUse>>

\* (mutant of UsageEdit) the state is saved before the edit:
\* history.push(editor.get_state()); editor.add_text(w)
UsageEditSaveFirst(w) ==
  /\ Len(u_log) < MaxEdits
  /\ content' = AddText(content, w)
  /\ heap' = GetState(heap, content)
  /\ captured' = Append(captured, content)
  /\ states' = Push(states, Len(heap) + 1)
  /\ stamps' = Push(stamps, MaxStamp(stamps) + 1)
  /\ u_started' = TRUE
  /\ u_log' = Append(u_log, content')
  /\ u_clean' = (u_clean /\ u_undos = 0)
  /\ u_undos' = 0
  /\ UNCHANGED <<last, pre, u_seeded, u_ok, u_failed, notUse>>

\* editor.add_text(w); history.push(editor.get_state())
UsageEdit(w) ==
  /\ Len(u_log) < MaxEdits
  /\ content' = AddText(content, w)
  /\ SaveState
  /\ u_started' = TRUE
  /\ u_log' = Append(u_log, content')
  /\ u_clean' = (u_clean /\ u_undos = 0)
  /\ u_undos' = 0
  /\ UNCHANGED <<last, pre, u_seeded, u_ok, u_failed, notUse>>

\* (mutant of UsageUndo) restore_state takes None for the empty state:
\* self._content = state.get_content() if state else ""
UsageUndoClears ==
  /\ u_undos < MaxUndos
  /\ IF states # <<>>
       THEN /\ content' = RestoreState(heap, states[PopIndex(states)])
            /\ states' = RemoveAt(states, PopIndex(states))
            /\ stamps' = RemoveAt(stamps, PopIndex(states))
            /\ u_ok' = TRUE
       ELSE /\ u_ok' = FALSE
            /\ content' = <<>>
            /\ UNCHANGED <<states, stamps>>
  /\ u_started' = TRUE
  /\ u_undos' = u_undos + 1
  /\ u_failed' = (u_failed \/ states = <<>>)
  /\ UNCHANGED <<heap, captured, last, pre, u_seeded, u_log, u_clean, notUse>>

\* editor.restore_state(history.pop()); with an empty History pop returns None and
\* restore_state(None) raises AttributeError at state.get_content(), before it assigns
UsageUndo ==
  /\ u_undos < MaxUndos
  /\ IF states # <<>>
       THEN /\ content' = RestoreState(heap, states[PopIndex(states)])
            /\ states' = RemoveAt(states, PopIndex(states))
            /\ stamps' = RemoveAt(stamps, PopIndex(states))
            /\ u_ok' = TRUE
       ELSE /\ u_ok' = FALSE
            /\ UNCHANGED <<content, states, stamps>>
  /\ u_started' = TRUE
  /\ u_undos' = u_undos + 1
  /\ u_failed' = (u_failed \/ states = <<>>)
  /\ UNCHANGED <<heap, captured, last, pre, u_seeded, u_log, u_clean, notUse>>

NextUsage ==
  \/ UsageSeed
  \/ \E w \in Words : UsageEdit(w)
  \/ UsageUndo

\* ------------------------------------------------------------ both versions, same commands
\* the command "add text w" given to both usage cells: editor.add_text(w) on the
\* single-class Editor; editor.add_text(w); history.push(editor.get_state()) on the
\* Memento version
RefineAddText(w) ==
  /\ u_seeded
  /\ Len(u_log) < MaxEdits
  /\ old_history' = Append(old_history, old_content)
  /\ old_content' = old_content \o w
  /\ old_frags' = Append(old_frags, w)
  /\ old_adds' = old_adds + 1
  /\ old_last' = "add_text"
  /\ content' = AddText(content, w)
  /\ SaveState
  /\ u_log' = Append(u_log, content')
  /\ u_clean' = (u_clean /\ u_undos = 0)
  /\ u_undos' = 0
  /\ UNCHANGED <<old_undos, last, pre, u_seeded, u_started, u_ok, u_failed,
                 concVars, rateVars, cacheVars, histVars>>

\* the command "undo" given to both usage cells: editor.undo() on the single-class
\* Editor; editor.restore_state(history.pop()) on the Memento version
RefineUndo ==
  /\ u_seeded
  /\ u_undos < MaxUndos
  /\ IF old_history # <<>>
       THEN /\ old_content' = old_history[Len(old_history)]
            /\ old_history' = Front(old_history)
            /\ old_undos' = old_undos + 1
            /\ old_last' = "undo"
       ELSE /\ old_last' = "undo_empty"
            /\ UNCHANGED <<old_content, old_history, old_undos>>
  /\ old_frags' = IF old_frags = <<>> THEN old_frags ELSE Front(old_frags)
  /\ IF states # <<>>
       THEN /\ content' = RestoreState(heap, states[PopIndex(states)])
            /\ states' = RemoveAt(states, PopIndex(states))
            /\ stamps' = RemoveAt(stamps, PopIndex(states))
            /\ u_ok' = TRUE
       ELSE /\ u_ok' = FALSE
            /\ UNCHANGED <<content, states, stamps>>
  /\ u_undos' = u_undos + 1
  /\ u_failed' = (u_failed \/ states = <<>>)
  /\ UNCHANGED <<old_adds, heap, captured, last, pre, u_seeded, u_started, u_log, u_clean,
                 concVars, rateVars, cacheVars, histVars>>

NextRefine ==
  \/ UsageSeed
  \/ \E w \in Words : RefineAddText(w)
  \/ RefineUndo

\* ------------------------------------------------------------ two actors, one Editor and History
notConc == <<last, pre, oldVars, useVars, rateVars, cacheVars, histVars>>

IdleConc ==
  /\ c_pc = [a \in Actors |-> "idle"]
  /\ c_tmp = [a \in Actors |-> None]
  /\ c_interfered = [a \in Actors |-> FALSE]
  /\ c_pushed = 0

\* actor a may start its add_text: always when nothing serializes the actors, only when
\* no other actor is inside its own add_text, get_state, push when they run as a unit
MayStart(a) == c_atomic => \A b \in Actors \ {a} : c_pc[b] = "idle"

\* actor a: editor.add_text(w)
ConcAddText(a, w) ==
  /\ c_pc[a] = "idle"
  /\ MayStart(a)
  /\ Len(content) + Len(w) <= MaxContent
  /\ content' = AddText(content, w)
  /\ c_pc' = [c_pc EXCEPT ![a] = "added"]
  /\ c_interfered' = [b \in Actors |-> c_interfered[b] \/ (b # a /\ c_pc[b] = "captured")]
  /\ c_pushed' = 0
  /\ UNCHANGED <<heap, captured, states, stamps, c_atomic, c_tmp, notConc>>

\* actor a: state = editor.get_state()
ConcGetState(a) ==
  /\ c_pc[a] = "added"
  /\ Len(heap) < MaxSnapshots
  /\ heap' = GetState(heap, content)
  /\ captured' = Append(captured, content)
  /\ c_tmp' = [c_tmp EXCEPT ![a] = Len(heap) + 1]
  /\ c_pc' = [c_pc EXCEPT ![a] = "captured"]
  /\ c_interfered' = [c_interfered EXCEPT ![a] = FALSE]
  /\ c_pushed' = 0
  /\ UNCHANGED <<content, states, stamps, c_atomic, notConc>>

\* actor a: history.push(state)
ConcPush(a) ==
  /\ c_pc[a] = "captured"
  /\ Len(states) < MaxHist
  /\ states' = Push(states, c_tmp[a])
  /\ stamps' = Push(stamps, MaxStamp(stamps) + 1)
  /\ c_tmp' = [c_tmp EXCEPT ![a] = None]
  /\ c_pc' = [c_pc EXCEPT ![a] = "idle"]
  /\ c_pushed' = a
  /\ UNCHANGED <<content, heap, captured, c_atomic, c_interfered, notConc>>

NextConc ==
  \/ \E a \in Actors, w \in Words : ConcAddText(a, w)
  \/ \E a \in Actors : ConcGetState(a)
  \/ \E a \in Actors : ConcPush(a)

\* ------------------------------------------------------------ rate_limit
notRate == <<memVars, oldVars, useVars, concVars, cacheVars, histVars>>

IdleRate ==
  /\ r_calls = <<>>
  /\ r_now = 0
  /\ r_admitted = <<>>
  /\ r_runs = 0
  /\ r_last = "init"

\* (mutant of StillCounted) a call exactly period old is still counted
StillCountedInclusive(call, current_time, period) == current_time - call <= period

\* the filter of the list comprehension: current_time - call < period
StillCounted(call, current_time, period) == current_time - call < period

\* calls[:] = [call for call in calls if current_time - call < period]
Prune(calls, current_time, period) ==
  SelectSeq(calls, LAMBDA call : StillCounted(call, current_time, period))

\* wrapper(*args, **kwargs), called when the clock has advanced by d
RateCall(d) ==
  /\ r_now + d <= MaxTime
  /\ r_now' = r_now + d
  /\ LET pruned == Prune(r_calls, r_now', r_period) IN
       IF Len(pruned) >= r_max_calls
         THEN /\ r_calls' = pruned
              /\ r_last' = "raised"
              /\ UNCHANGED <<r_admitted, r_runs>>
         ELSE /\ r_calls' = Append(pruned, r_now')
              /\ r_admitted' = Append(r_admitted, r_now')
              /\ r_runs' = r_runs + 1
              /\ r_last' = "ok"
  /\ UNCHANGED <<r_max_calls, r_period, notRate>>

NextRate == \E d \in 0..MaxTime : RateCall(d)

\* ------------------------------------------------------------ History, calls counted
notHist == <<content, heap, captured, last, pre, oldVars, useVars, concVars, rateVars, cacheVars>>

InitHist ==
  /\ h_pushes = 0
  /\ h_pops = 0
  /\ h_last = "init"

\* history.push(s), s any of MaxSnapshots objects
HistPush(s) ==
  /\ h_pushes < MaxPushCalls
  /\ states' = Push(states, s)
  /\ stamps' = Push(stamps, MaxStamp(stamps) + 1)
  /\ h_pushes' = h_pushes + 1
  /\ h_last' = "push"
  /\ UNCHANGED <<h_pops, notHist>>

\* (mutant of Taken) the last element is read and left in the list: self._states[-1]
TakenPeek(st) == st

\* self._states after self._states.pop()
Taken(st) == RemoveAt(st, PopIndex(st))

\* history.pop()
HistPop ==
  /\ IF states # <<>>
       THEN /\ states' = Taken(states)
            /\ stamps' = Taken(stamps)
            /\ h_pops' = h_pops + 1
            /\ h_last' = "pop"
       ELSE /\ h_last' = "pop_none"
            /\ UNCHANGED <<states, stamps, h_pops>>
  /\ UNCHANGED <<h_pushes, notHist>>

NextHist ==
  \/ \E s \in 1..MaxSnapshots : HistPush(s)
  \/ HistPop

\* ------------------------------------------------------------ cache_decorator
notCache == <<memVars, oldVars, useVars, concVars, rateVars, histVars>>

\* cache = {}
InitCache ==
  /\ k_cache = [a \in CacheArgs |-> None]
  /\ k_returns = [a \in CacheArgs |-> 0]
  /\ k_raises = [a \in CacheArgs |-> 0]
  /\ k_first = [a \in CacheArgs |-> None]
  /\ k_last = [args |-> None, ret |-> None, outcome |-> "init"]

\* args in cache
InCache(cache, args) == cache[args] # None

\* (mutant of CacheStore) the result is returned without being stored
CacheStoreNothing(cache, args, result) == cache

\* cache[args] = result
CacheStore(cache, args, result) == [cache EXCEPT ![args] = result]

\* wrapper(*args) when args is in the cache: return cache[args], func is not run
CacheHit(args) ==
  /\ InCache(k_cache, args)
  /\ k_last' = [args |-> args, ret |-> k_cache[args], outcome |-> "hit"]
  /\ UNCHANGED <<k_cache, k_returns, k_raises, k_first, notCache>>

\* wrapper(*args) when args is not in the cache and func(*args) returns result:
\* cache[args] = result; return result
CacheMiss(args, result) ==
  /\ ~InCache(k_cache, args)
  /\ k_cache' = CacheStore(k_cache, args, result)
  /\ k_returns' = [k_returns EXCEPT ![args] = @ + 1]
  /\ k_first' = [k_first EXCEPT ![args] = IF @ = None THEN result ELSE @]
  /\ k_last' = [args |-> args, ret |-> result, outcome |-> "computed"]
  /\ UNCHANGED <<k_raises, notCache>>

\* wrapper(*args) when args is not in the cache and func(*args) raises: the exception
\* leaves wrapper at result = func(*args), before cache[args] = result
CacheRaise(args) ==
  /\ ~InCache(k_cache, args)
  /\ k_raises[args] < MaxRaises
  /\ k_raises' = [k_raises EXCEPT ![args] = @ + 1]
  /\ k_last' = [args |-> args, ret |-> None, outcome |-> "raised"]
  /\ UNCHANGED <<k_cache, k_returns, k_first, notCache>>

NextCache ==
  \/ \E a \in CacheArgs : CacheHit(a)
  \/ \E a \in CacheArgs, v \in CacheValues : CacheMiss(a, v)
  \/ \E a \in CacheArgs : CacheRaise(a)

\* ------------------------------------------------------------ specifications
Init ==
  /\ InitMem /\ InitOld /\ InitUse /\ InitCache /\ InitHist
  /\ IdleConc /\ c_atomic = FALSE
  /\ IdleRate /\ r_max_calls = 1 /\ r_period = 1

\* any sequence of calls on one Editor and one History of the Memento version
Spec == Init /\ [][Next]_vars

\* any sequence of add_text and undo calls on one single-class Editor
SpecBefore == Init /\ [][NextBefore]_vars

\* the commands of the usage cell, with or without the snapshot of the initial state
SpecUsage == Init /\ [][NextUsage]_vars

\* the two usage cells side by side, given the same commands; the Memento version
\* pushes the snapshot of the initial state first, as its cell does
SpecRefine == Init /\ [][NextRefine]_vars

\* two actors, either serialized by their callers or not
InitConc ==
  /\ InitMem /\ InitOld /\ InitUse /\ InitCache /\ InitHist
  /\ IdleConc /\ c_atomic \in BOOLEAN
  /\ IdleRate /\ r_max_calls = 1 /\ r_period = 1

SpecConc == InitConc /\ [][NextConc]_vars

\* one function decorated with rate_limit(max_calls, period), called at clock readings
\* that never decrease (time.perf_counter is monotonic); period >= 1 keeps the number of
\* admitted calls up to MaxTime finite
InitRate ==
  /\ InitMem /\ InitOld /\ InitUse /\ InitCache /\ InitHist
  /\ IdleConc /\ c_atomic = FALSE
  /\ IdleRate /\ r_max_calls \in 0..MaxCalls /\ r_period \in 1..MaxPeriod

SpecRate == InitRate /\ [][NextRate]_vars

\* any sequence of push and pop calls on one History, the calls counted
SpecHistory == Init /\ [][NextHist]_vars

\* one function decorated with cache_decorator, called with any arguments; each run of
\* the function returns some value or raises
SpecCache == Init /\ [][NextCache]_vars

\* ------------------------------------------------------------ properties of Spec

\* C4: History.pop on an empty History returns None, raises nothing and changes neither
\* the History nor the Editor nor any snapshot; the History is left as History() makes
\* it (empty), so every later push and pop acts as on a fresh History.
PopOnEmptyChangesNothing ==
  [][ (last'.op = "pop" /\ states = <<>>) =>
        /\ last'.ret = None
        /\ ~last'.raised
        /\ states' = <<>>
        /\ content' = content
        /\ heap' = heap ]_vars

\* an empty pop made after the History had been filled and emptied again
PopOnEmptyReached ==
  /\ last.op = "pop" /\ last.ret = None
  /\ pre.op = "pop" /\ pre.ret # None

\* C5: editor.restore_state(editor.get_state()) leaves get_content() as it was, and
\* leaves the History alone.
RoundTrip ==
  [][ (last.op = "get_state" /\ last'.op = "restore_state" /\ last'.arg = last.ret) =>
        /\ ~last'.raised
        /\ GetContent(content') = GetContent(content)
        /\ states' = states ]_vars

\* restore_state applied to the snapshot get_state has just returned, on a non-empty text
RoundTripReached ==
  /\ last.op = "restore_state" /\ pre.op = "get_state" /\ last.arg = pre.ret
  /\ content # <<>>

\* C6: the payload of every EditorState ever made equals the Editor content at the
\* moment get_state made it, whatever was called since.
SnapshotImmutable ==
  \A i \in DOMAIN heap : StateGetContent(heap[i]) = captured[i]

\* a snapshot that went through the History and is handed back after the Editor moved on
SnapshotOutlivesEdit ==
  /\ last.op = "pop" /\ last.ret # None
  /\ captured[last.ret] # content
  /\ Len(captured[last.ret]) < Len(content)

\* the position of the entry pushed last among those still in the History
NewestIndex == CHOOSE j \in DOMAIN stamps : \A k \in DOMAIN stamps : stamps[k] <= stamps[j]

\* C7: pop on a non-empty History returns the entry pushed last among those not yet
\* popped and removes that entry alone; the others keep their order.
StackDiscipline ==
  [][ (last'.op = "pop" /\ states # <<>>) =>
        /\ last'.ret = states[NewestIndex]
        /\ states' = RemoveAt(states, NewestIndex)
        /\ stamps' = RemoveAt(stamps, NewestIndex) ]_vars

\* a pop that returned a snapshot and left an older, different one in the History
PopLeavesOlder ==
  /\ last.op = "pop" /\ last.ret # None
  /\ states # <<>> /\ states[1] # last.ret

\* C8 as stated: an undo (pop that returns a snapshot) followed at once by redo() leaves
\* the History as it was before the undo.
RedoInvertsUndo ==
  (last.op = "redo" /\ pre.op = "pop" /\ pre.ret # None) => states = pre.from

\* C8 as amended: History has no redo; what undoes a pop is pushing the returned
\* snapshot back: pop on a non-empty History followed at once by push of the snapshot
\* it returned leaves History._states as it was before the pop.
PushInvertsUndo ==
  (last.op = "push" /\ pre.op = "pop" /\ pre.ret # None /\ last.arg = pre.ret) =>
     states = pre.from

\* the popped snapshot pushed back onto a History that still held an older entry
PushAfterUndoReached ==
  /\ last.op = "push" /\ pre.op = "pop" /\ pre.ret # None /\ last.arg = pre.ret
  /\ Len(states) >= 2

\* C13: after restore_state(s) the content is exactly the content at the time get_state
\* made s, whatever add_text and restore_state calls were made in between.
RestoreReplacesContent ==
  (last.op = "restore_state" /\ ~last.raised) => GetContent(content) = captured[last.arg]

\* a restore of a snapshot older than another one that captured a different text
RestoreDiscardsChanges ==
  /\ last.op = "restore_state" /\ ~last.raised
  /\ \E j \in DOMAIN captured : j > last.arg /\ captured[j] # captured[last.arg]
  /\ content # <<>>

\* C14: push and pop change neither the Editor content nor any EditorState, stored,
\* returned or popped; add_text, get_content, get_state and restore_state leave the
\* History's list of snapshots as it is.
HistoryIsPureContainer ==
  [][ /\ (last'.op \in {"push", "pop"}) => (content' = content /\ heap' = heap)
      /\ (last'.op \in {"add_text", "get_content", "get_state", "restore_state"}) =>
            states' = states ]_vars

\* an Editor call made while the History holds two snapshots, right after a pop
EditorCallWithFullHistory ==
  /\ last.op \in {"add_text", "get_state", "restore_state"}
  /\ pre.op = "pop" /\ pre.ret # None
  /\ Len(states) >= 1 /\ content # <<>>

\* ------------------------------------------------------------ properties of SpecBefore

\* C3: the content of the single-class Editor is always the concatenation of the
\* fragments added and not yet undone, and _history[i] is the content held just before
\* the i-th of them was added; so an undo with a non-empty _history sets the content to
\* what it was before the most recent add_text not yet undone, N add_text and k <= N
\* undo leave the first N - k fragments, and N undos leave "".
UndoRestoresBeforeLastAdd ==
  /\ old_content = Flatten(old_frags)
  /\ Len(old_history) = Len(old_frags)
  /\ \A i \in DOMAIN old_history : old_history[i] = Flatten(SubSeq(old_frags, 1, i - 1))
  /\ (old_undos = old_adds) => old_content = <<>>

\* an undo that went back to a non-empty text with an add_text still to undo
UndoToNonEmpty ==
  /\ old_last = "undo" /\ old_content # <<>>
  /\ old_history # <<>> /\ old_undos >= 1 /\ old_adds >= 3

\* C16: undo() of the single-class Editor with an empty _history prints "No states to
\* undo." and changes neither _content nor _history; _history is empty exactly when as
\* many undo calls restored a state as add_text calls were made.
UndoOnEmptyReports ==
  /\ []((old_history = <<>>) <=> (old_undos = old_adds))
  /\ [][ (old_history = <<>> /\ old_last' # "add_text") =>
           /\ old_last' = "undo_empty"
           /\ old_content' = old_content
           /\ old_history' = old_history ]_vars

\* an undo on a _history that add_text had filled and undo had emptied again
UndoOnEmptiedHistory ==
  /\ old_last = "undo_empty" /\ old_adds >= 2 /\ old_undos = old_adds

\* ------------------------------------------------------------ properties of SpecUsage

\* the Editor content right after the i-th edit, the initial content for i = 0
StateAfter(i) == IF i = 0 THEN <<>> ELSE u_log[i]

\* C1 as stated: without a snapshot of the initial state, after N edits the k-th undo
\* in a row (1 <= k <= N) sets the content to the state after the (N-k)-th edit, down to
\* the initial empty content.
UndoReachesInitial ==
  (~u_seeded /\ u_clean /\ u_undos >= 1 /\ u_undos <= Len(u_log)) =>
     content = StateAfter(Len(u_log) - u_undos)

\* C1 as amended: without a snapshot of the initial state, after N edits the k-th undo
\* in a row (1 <= k <= N) pops a snapshot and sets the content to the state after the
\* (N+1-k)-th edit: the first undo restores the content the Editor already has and the
\* N-th the state after the first edit.
UndoLagsByOne ==
  (~u_seeded /\ u_clean /\ u_undos >= 1 /\ u_undos <= Len(u_log)) =>
     u_ok /\ content = StateAfter(Len(u_log) + 1 - u_undos)

\* two edits without a seed, then two undos
UnseededTwoUndos ==
  ~u_seeded /\ u_clean /\ Len(u_log) = 2 /\ u_undos = 2

\* C2: with the snapshot of the initial state pushed first, after N edits the k-th
\* undo in a row (1 <= k <= N+1) pops a snapshot (never None) and sets the content to
\* the state after the (N+1-k)-th edit; the (N+1)-th restores the initial empty content.
SeededUndoOrder ==
  (u_seeded /\ u_clean /\ u_undos >= 1 /\ u_undos <= Len(u_log) + 1) =>
     u_ok /\ content = StateAfter(Len(u_log) + 1 - u_undos)

\* the usage cell's run: seed, two edits, three undos, back to the empty content
SeededThreeUndos ==
  u_seeded /\ u_clean /\ Len(u_log) = 2 /\ u_undos = 3 /\ content = <<>>

\* C17: editor.restore_state(history.pop()) on an empty History fails before anything
\* is assigned: the Editor content, the History and the snapshots stay as they were;
\* and after such a failure an add_text + get_state + push followed by an undo works
\* as usual: the undo pops the snapshot just pushed and restores the content of that
\* edit.
UndoOnEmptyFails ==
  /\ [][ (states = <<>> /\ u_undos' = u_undos + 1) =>
           /\ ~u_ok'
           /\ content' = content
           /\ states' = states
           /\ heap' = heap ]_vars
  /\ []((u_failed /\ u_undos = 1 /\ u_log # <<>>) =>
          (u_ok /\ content = StateAfter(Len(u_log))))

\* a failed undo on a non-empty text, then another edit and its undo
UndoWorksAfterFailure ==
  /\ u_failed /\ u_undos = 1 /\ Len(u_log) >= 2
  /\ u_ok /\ content # <<>>

\* ------------------------------------------------------------ properties of SpecConc

\* the payload of the snapshot on top of the History
TopPayload == StateGetContent(heap[states[Len(states)]])

\* C9: right after a push, the snapshot on top of the History equals the Editor content
\* whenever add_text + get_state + push run as one unit; it can differ from it only when
\* the actors are not serialized and another actor's add_text ran between the pusher's
\* get_state and its push.
WrongSnapshotOnlyByInterleaving ==
  /\ (c_atomic /\ c_pushed # 0) => TopPayload = content
  /\ (c_pushed # 0 /\ TopPayload # content) => (~c_atomic /\ c_interfered[c_pushed])

\* the interleaving: a snapshot has just been pushed that is not the Editor content
WrongSnapshotPushed ==
  ~c_atomic /\ c_pushed # 0 /\ TopPayload # content

\* ------------------------------------------------------------ properties of SpecRate

\* the admitted calls made before the last call
AdmittedBefore == IF r_last = "ok" THEN Front(r_admitted) ELSE r_admitted

\* how many of the times ts are less than period before t
Recent(ts, t) == Cardinality({i \in DOMAIN ts : t - ts[i] < r_period})

\* C10: a call at time t is admitted, and the wrapped function runs, exactly when fewer
\* than max_calls of the calls admitted before it are less than period old at t;
\* otherwise it raises and the function does not run. So no admitted call has max_calls
\* or more admitted calls less than period before it.
RateLimitAdmission ==
  /\ (r_last # "init") => ((r_last = "ok") <=> (Recent(AdmittedBefore, r_now) < r_max_calls))
  /\ r_runs = Len(r_admitted)
  /\ \A j \in DOMAIN r_admitted :
        Cardinality({i \in 1..j : r_admitted[j] - r_admitted[i] < r_period}) <= r_max_calls

\* a call refused although an older admitted call had already expired
RefusedAfterExpiry ==
  /\ r_last = "raised" /\ r_max_calls >= 2
  /\ Len(r_calls) < Len(r_admitted)

\* ------------------------------------------------------------ properties of SpecHistory

\* C15: the number of stored snapshots is the number of push calls minus the number of
\* pop calls that returned a snapshot, and never negative; a push raises it by exactly
\* one (History has no capacity, so nothing caps it), a pop on a non-empty History
\* lowers it by exactly one and a pop on an empty one leaves it at 0.
HistorySize ==
  /\ [](Len(states) = h_pushes - h_pops /\ h_pushes >= h_pops)
  /\ [][ /\ (h_last' = "push") => Len(states') = Len(states) + 1
         /\ (h_last' = "pop") => (states # <<>> /\ Len(states') = Len(states) - 1)
         /\ (h_last' = "pop_none") => (states = <<>> /\ states' = <<>>) ]_vars

\* a pop that returned a snapshot after more pushes than the History now holds
PopAfterPushes ==
  /\ h_last = "pop" /\ h_pushes >= 3 /\ h_pops >= 2 /\ states # <<>>

\* ------------------------------------------------------------ properties of SpecRefine

\* C12: after every command the Memento version, driven as in its usage cell, has
\* the same content as the single-class Editor given the same commands.
RefactoringKeepsContent ==
  u_seeded => GetContent(content) = old_content

\* ------------------------------------------------------------ properties of SpecCache

\* how many times func(*args) was run
Invocations(args) == k_returns[args] + k_raises[args]

\* C11 as stated: the function is run at most once for each argument tuple.
InvokedOncePerArgs ==
  \A a \in CacheArgs : Invocations(a) <= 1

\* C11 as amended: the function returns at most once for each argument tuple (a run
\* that raises stores nothing, and the next call with that tuple runs it again); from
\* then on the tuple stays in the cache with the value of that run, never evicted or
\* overwritten, and every call that returns gives that value.
ReturnsOncePerArgs ==
  /\ \A a \in CacheArgs :
        /\ k_returns[a] <= 1
        /\ k_returns[a] = (IF InCache(k_cache, a) THEN 1 ELSE 0)
        /\ k_cache[a] = k_first[a]
  /\ (k_last.outcome \in {"hit", "computed"}) => k_last.ret = k_first[k_last.args]

\* a call answered from the cache, for arguments whose first run had raised
HitAfterRaise ==
  /\ k_last.outcome = "hit"
  /\ k_raises[k_last.args] >= 1
  /\ \E b \in CacheArgs : InCache(k_cache, b) /\ k_cache[b] # k_last.ret

====
